---- MODULE Spec2Model ----
(***************************************************************************)
(* Model of tasks/cfg.py (class CFGTask): vocabulary construction from a   *)
(* context-free grammar, enumeration of the sample pool, construction of   *)
(* the padded input/target arrays and the masked per-step evaluation.      *)
(*                                                                         *)
(* Words and grammar symbols are strings.  Codes are 0-based naturals as   *)
(* in the source; arrays are sequences, so the source's index i is the     *)
(* model's index i + 1.                                                    *)
(***************************************************************************)
EXTENDS Integers, Sequences, FiniteSets, TLC

VARIABLES
    grammar,          \* self.grammar: the list of productions
    null,             \* self.null
    sample_depth,     \* self.sample_depth
    max_length,       \* self.max_length
    code_for,         \* self.code_for: word -> code
    num_words,        \* self.num_words
    to_predict_code,  \* self.to_predict_code: list of codes
    sample_strings,   \* self.sample_strings: list of sentences
    train_x, train_y, \* self.train_x, self.train_y (<<>> while not assigned)
    test_x, test_y,   \* self.test_x, self.test_y   (<<>> while not assigned)
    op,               \* the operation called last
    args,             \* its arguments and the locals the claims speak of
    ret               \* [err, val]: the error it raised ("none" if it
                      \* returned) and the value it returned

vars == <<grammar, null, sample_depth, max_length, code_for, num_words,
          to_predict_code, sample_strings, train_x, train_y, test_x, test_y,
          op, args, ret>>

task == <<grammar, null, sample_depth, max_length, code_for, num_words,
          to_predict_code, sample_strings>>

data == <<train_x, train_y, test_x, test_y>>

----------------------------------------------------------------------------
(* Bounds of the model *)

MaxDepth == 3       \* sample_depth ranges over 1..MaxDepth
MaxLength == 2      \* max_length ranges over 1..MaxLength
MaxTensors == 2     \* get_tensors(n) is called with n in 0..MaxTensors
MaxBatch == 2       \* a batch passed to _evaluate_step has 1..MaxBatch rows
TrainSize == 2      \* stands for the 800 sentences of the training set
TestSize == 1       \* stands for the 100 sentences of the test set

\* The values the criterion may give one sample: finite stand-ins for
\* floating-point numbers, of which the evaluation reads only the sums.
Losses == {0, 1}

----------------------------------------------------------------------------
(* Generic helpers *)

Returned(v) == [err |-> "none", val |-> v]

Raised(e) == [err |-> e, val |-> <<>>]

Range(s) == {s[i] : i \in DOMAIN s}

RECURSIVE SumSeq(_)
SumSeq(s) == IF s = <<>> THEN 0 ELSE Head(s) + SumSeq(Tail(s))

RECURSIVE Concat(_)
Concat(ss) == IF ss = <<>> THEN <<>> ELSE Head(ss) \o Concat(Tail(ss))

Prefix(s, n) == IF Len(s) <= n THEN s ELSE SubSeq(s, 1, n)

\* The orders in which a Python set may be iterated: every listing of S
\* without repetition.
Orders(S) == {o \in [1..Cardinality(S) -> S] : Range(o) = S}

SetToSeq(S) == CHOOSE o \in Orders(S) : TRUE

----------------------------------------------------------------------------
(* Grammars.  A production is [lhs, rhs]; a grammar is its list of         *)
(* productions, the start symbol being the first left-hand side.           *)

Nonterminals == {"S", "A", "B"}

is_terminal(x) == x \notin Nonterminals

P(l, r) == [lhs |-> l, rhs |-> r]

Grammars ==
    << \* S -> 'a' 'b' 'a'
       << P("S", <<"a", "b", "a">>) >>,
       \* S -> A 'b' | 'a' B ; A -> 'a' ; B -> 'b' | 'b' 'a'   (ambiguous)
       << P("S", <<"A", "b">>), P("S", <<"a", "B">>), P("A", <<"a">>),
          P("B", <<"b">>), P("B", <<"b", "a">>) >>,
       \* S -> 'a' S 'b' | (empty)
       << P("S", <<"a", "S", "b">>), P("S", <<>>) >>,
       \* S -> 'a' '#' | 'a'   ('#' is a terminal of the grammar)
       << P("S", <<"a", "#">>), P("S", <<"a">>) >>,
       \* S -> A ; A -> S      (derives no sentence)
       << P("S", <<"A">>), P("A", <<"S">>) >> >>

Nulls == {"#", "a"}

start(g) == g[1].lhs

\* grammar.productions(lhs=item), in the order of the grammar
productions(g, item) == SelectSeq(g, LAMBDA p : p.lhs = item)

\* nltk.parse.generate: _generate_all and _generate_one.  The result is the
\* list of sentences in the order the generator yields them.
RECURSIVE generate_all(_, _, _), generate_one(_, _, _)
generate_all(g, items, depth) ==
    IF items = <<>> THEN << <<>> >>
    ELSE LET f1 == generate_one(g, Head(items), depth)
             f2 == generate_all(g, Tail(items), depth)
         IN  Concat([i \in DOMAIN f1 |-> [k \in DOMAIN f2 |-> f1[i] \o f2[k]]])

generate_one(g, item, depth) ==
    IF depth > 0
    THEN IF ~is_terminal(item)
         THEN LET ps == productions(g, item)
              IN  Concat([i \in DOMAIN ps |->
                             generate_all(g, ps[i].rhs, depth - 1)])
         ELSE << <<item>> >>
    ELSE <<>>

generate(g, depth) == generate_all(g, <<start(g)>>, depth)

----------------------------------------------------------------------------
(* Vocabulary *)

\* The terminals on the right-hand sides of the productions of g.
rhs_symbols(g) ==
    {x \in UNION {Range(g[i].rhs) : i \in DOMAIN g} : is_terminal(x)}

\* A variant numbering the terminals from 1 (enumerate(rhs_symbols, 1)).
get_code_for_from_one(nl) ==
    LET terms == rhs_symbols(grammar)
    IN  { [x \in terms \cup {nl} |->
              IF x = nl THEN Cardinality(terms)
              ELSE CHOOSE i \in DOMAIN o : o[i] = x]
          : o \in Orders(terms) }

\* _get_code_for(null): enumerate() numbers the terminals in the iteration
\* order of a set, which the language leaves open, so the operator yields
\* every dict the call may return.  The assignment code_for[null] =
\* len(code_for) is made after the terminals are numbered.
get_code_for(nl) ==
    LET terms == rhs_symbols(grammar)
    IN  { [x \in terms \cup {nl} |->
              IF x = nl THEN Cardinality(terms)
              ELSE (CHOOSE i \in DOMAIN o : o[i] = x) - 1]
          : o \in Orders(terms) }

\* words_to_code(*words); defined when every word is a key of code_for,
\* a KeyError otherwise.
known(words) == \A i \in DOMAIN words : words[i] \in DOMAIN code_for

words_to_code(words) == [i \in DOMAIN words |-> code_for[words[i]]]

\* one_hot(number, size)
one_hot(number, size) == [i \in 1..size |-> IF i - 1 = number THEN 1 ELSE 0]

\* words_to_one_hot(*words)
words_to_one_hot(words) ==
    LET size == Cardinality(DOMAIN code_for)
        codes == [i \in DOMAIN words |-> code_for[words[i]]]
    IN  [i \in DOMAIN codes |-> one_hot(codes[i], size)]

----------------------------------------------------------------------------
(* Sample pool *)

\* A variant that never removes duplicates.
generate_sample_strings_all(remove_duplicates) ==
    generate(grammar, sample_depth)

\* generate_sample_strings(remove_duplicates).  The list made from the set
\* is given one fixed order: no operation reads a position of the pool
\* other than through a uniform draw.
generate_sample_strings(remove_duplicates) ==
    LET generator == generate(grammar, sample_depth)
    IN  IF remove_duplicates THEN SetToSeq(Range(generator))
        ELSE generator

----------------------------------------------------------------------------
(* Dataset construction *)

Rest(s) == IF s = <<>> THEN <<>> ELSE Tail(s)

\* A variant that returns an empty sentence when the list is empty.
choice_or_empty(seq) ==
    IF seq = <<>> THEN {[ok |-> TRUE, val |-> <<>>]}
    ELSE {[ok |-> TRUE, val |-> seq[i]] : i \in DOMAIN seq}

\* random.choice(seq): the outcomes of one draw.  An empty list raises
\* IndexError (ok = FALSE).
choice(seq) ==
    IF seq = <<>> THEN {[ok |-> FALSE, val |-> <<>>]}
    ELSE {[ok |-> TRUE, val |-> seq[i]] : i \in DOMAIN seq}

\* The lists [get_random_sample_string() for _ in xrange(n)] may build: n
\* independent draws.
draws(n) == [1..n -> choice(sample_strings)]

failed(d) == \E i \in DOMAIN d : ~d[i].ok

values(d) == [i \in DOMAIN d |-> d[i].val]

\* get_tensors, lines 270-279: x for the sentences x_raw
tensors_x(x_raw) ==
    LET size == Cardinality(DOMAIN code_for)
        fill == [k \in 1..size |-> IF k = size THEN 1 ELSE 0]
    IN  [i \in DOMAIN x_raw |->
           LET words_one_hot == Prefix(words_to_one_hot(x_raw[i]), max_length)
           IN  [j \in 1..max_length |->
                  IF j <= Len(words_one_hot) THEN words_one_hot[j] ELSE fill]]

\* A variant without the shift (y_raw = x_raw).
tensors_y_unshifted(x_raw) ==
    [i \in DOMAIN x_raw |->
        LET words_code == Prefix(words_to_code(x_raw[i]), max_length)
        IN  [j \in 1..max_length |->
               IF j <= Len(words_code) THEN words_code[j]
               ELSE code_for[null]]]

\* get_tensors, lines 268 and 281-289: y for the sentences x_raw
tensors_y(x_raw) ==
    LET y_raw == [i \in DOMAIN x_raw |-> Rest(x_raw[i])]
    IN  [i \in DOMAIN y_raw |->
           LET words_code == Prefix(words_to_code(y_raw[i]), max_length)
           IN  [j \in 1..max_length |->
                  IF j <= Len(words_code) THEN words_code[j]
                  ELSE code_for[null]]]

----------------------------------------------------------------------------
(* Masked evaluation of one step *)

\* Rationals, for the means of the loss.
Rat(n, d) == [num |-> n, den |-> d]

RatEq(p, q) == p.num * q.den = q.num * p.den

\* torch.max(a, 1): the index of the first largest entry of a row
argmax(row) ==
    CHOOSE k \in 0..(Len(row) - 1) :
        /\ \A m \in DOMAIN row : row[m] <= row[k + 1]
        /\ \A m \in 1..k : row[m] < row[k + 1]

\* A variant that scores null targets too (line 201 dropped).
valid_x_with_null(ycol) ==
    [k \in DOMAIN ycol |->
        IF ycol[k] \notin Range(to_predict_code) THEN 0 ELSE 1]

\* A variant that scores every non-null target (lines 202-204 dropped).
valid_x_unfiltered(ycol) ==
    [k \in DOMAIN ycol |-> IF ycol[k] # code_for[null] THEN 1 ELSE 0]

\* lines 200-204: the trials where a prediction is scored
valid_x(ycol) ==
    LET nullc == code_for[null]
        v == [k \in DOMAIN ycol |-> IF ycol[k] # nullc THEN 1 ELSE 0]
    IN  [k \in DOMAIN ycol |->
           IF ycol[k] \notin Range(to_predict_code) THEN 0 ELSE v[k]]

\* line 206
correct_trials(y_pred, ycol) ==
    [k \in DOMAIN ycol |-> IF y_pred[k] = ycol[k] THEN 1 ELSE 0]

\* self.criterion(a, y[:, j]) for the default criterion nn.CrossEntropyLoss():
\* the mean over the batch of the per-sample values nll.
criterion(nll) == Rat(SumSeq(nll), Len(nll))

\* line 209: torch.mean(valid_x * criterion), the scalar criterion being
\* multiplied into every component of valid_x
step_loss(valid, nll) ==
    LET c == criterion(nll)
        prod == [k \in DOMAIN valid |-> Rat(valid[k] * c.num, c.den)]
    IN  Rat(SumSeq([k \in DOMAIN prod |-> prod[k].num]), c.den * Len(prod))

\* _evaluate_step(x, y, a, j) on a batch of at least one row; nll[i] is the
\* value the criterion gives a[i, :] against y[i, j] before its reduction.
evaluate_step(y, a, nll, j) ==
    LET y_pred == [i \in DOMAIN a |-> argmax(a[i])]
        ycol == [i \in DOMAIN y |-> y[i][j + 1]]
        valid == valid_x(ycol)
        hits == correct_trials(y_pred, ycol)
    IN  /\ op' = "evaluate_step"
        /\ args' = [y |-> y, a |-> a, nll |-> nll, j |-> j, y_pred |-> y_pred]
        /\ ret' = Returned(
                     [loss |-> step_loss(valid, nll),
                      correct |-> SumSeq([k \in DOMAIN valid |->
                                             valid[k] * hits[k]]),
                      total |-> SumSeq(valid)])
        /\ UNCHANGED <<task, data>>

\* The prediction rows drawn: one with a single largest score for every
\* code, and the row of equal scores.
Rows(n) == {one_hot(c, n) : c \in 0..(n - 1)} \cup {[k \in 1..n |-> 0]}

----------------------------------------------------------------------------
(* Construction: the state after CFGTask.__init__ *)

\* __init__, lines 97-118.  to_predict is drawn from PredictLists, lists of
\* words of the vocabulary (any other word ends the constructor with a
\* KeyError).
Construct(PredictLists) ==
    /\ grammar \in Range(Grammars)
    /\ null \in Nulls
    /\ sample_depth \in 1..MaxDepth
    /\ max_length \in 1..MaxLength
    /\ code_for \in get_code_for(null)
    /\ num_words = Cardinality(DOMAIN code_for)
    /\ \E to_predict \in PredictLists :
          to_predict_code = words_to_code(to_predict)
    /\ sample_strings = generate_sample_strings(TRUE)
    /\ train_x = <<>> /\ train_y = <<>> /\ test_x = <<>> /\ test_y = <<>>

\* No data operation reads to_predict_code: the tasks they run on predict
\* nothing or every terminal.
Init ==
    /\ Construct({<<>>, SetToSeq(rhs_symbols(grammar))})
    /\ op = "init" /\ args = <<>> /\ ret = Returned(<<>>)

----------------------------------------------------------------------------
(* Operations *)

\* The word lists the two conversions are called with: no word, one word,
\* and the whole vocabulary with and without a word that is not in it ("?"
\* is in no vocabulary).
WordLists ==
    LET all == SetToSeq(DOMAIN code_for)
    IN  {<<>>, all, all \o <<"?">>}
          \cup {<<w>> : w \in DOMAIN code_for \cup {"?"}}

call_words_to_code ==
    \E words \in WordLists :
        /\ op' = "words_to_code"
        /\ args' = words
        /\ ret' = IF known(words) THEN Returned(words_to_code(words))
                  ELSE Raised("KeyError")
        /\ UNCHANGED <<task, data>>

call_words_to_one_hot ==
    \E words \in WordLists :
        /\ op' = "words_to_one_hot"
        /\ args' = words
        /\ ret' = IF known(words) THEN Returned(words_to_one_hot(words))
                  ELSE Raised("KeyError")
        /\ UNCHANGED <<task, data>>

get_random_sample_string ==
    \E c \in choice(sample_strings) :
        /\ op' = "get_random_sample_string"
        /\ args' = <<>>
        /\ ret' = IF c.ok THEN Returned(c.val) ELSE Raised("IndexError")
        /\ UNCHANGED <<task, data>>

\* A variant that takes the first word off the drawn sentences themselves
\* (y_raw built with s.pop(0)) instead of copying them.
get_tensors_popping ==
    \E n \in 0..MaxTensors :
        \E d \in draws(n) :
            /\ op' = "get_tensors"
            /\ IF failed(d)
               THEN /\ args' = [num_tensors |-> n, x_raw |-> <<>>]
                    /\ ret' = Raised("IndexError")
                    /\ UNCHANGED sample_strings
               ELSE /\ args' = [num_tensors |-> n, x_raw |-> values(d)]
                    /\ ret' = Returned([x |-> tensors_x(values(d)),
                                        y |-> tensors_y(values(d))])
                    /\ sample_strings' =
                          [k \in DOMAIN sample_strings |->
                              IF sample_strings[k] \in Range(values(d))
                              THEN Rest(sample_strings[k])
                              ELSE sample_strings[k]]
            /\ UNCHANGED <<grammar, null, sample_depth, max_length, code_for,
                           num_words, to_predict_code, data>>

\* get_tensors(num_tensors); args keeps num_tensors and the local x_raw
\* (empty when a draw fails).
get_tensors ==
    \E n \in 0..MaxTensors :
        \E d \in draws(n) :
            /\ op' = "get_tensors"
            /\ IF failed(d)
               THEN /\ args' = [num_tensors |-> n, x_raw |-> <<>>]
                    /\ ret' = Raised("IndexError")
               ELSE /\ args' = [num_tensors |-> n, x_raw |-> values(d)]
                    /\ ret' = Returned([x |-> tensors_x(values(d)),
                                        y |-> tensors_y(values(d))])
            /\ UNCHANGED <<task, data>>

\* get_data(): the first get_tensors call that fails ends it, before any
\* of the four fields is assigned.
get_data ==
    \E tr \in draws(TrainSize) :
        /\ op' = "get_data"
        /\ args' = <<>>
        /\ IF failed(tr)
           THEN /\ ret' = Raised("IndexError")
                /\ UNCHANGED data
           ELSE \E te \in draws(TestSize) :
                   IF failed(te)
                   THEN /\ ret' = Raised("IndexError")
                        /\ UNCHANGED data
                   ELSE /\ train_x' = tensors_x(values(tr))
                        /\ train_y' = tensors_y(values(tr))
                        /\ test_x' = tensors_x(values(te))
                        /\ test_y' = tensors_y(values(te))
                        /\ ret' = Returned(<<>>)
        /\ UNCHANGED task

Next ==
    \/ call_words_to_code
    \/ call_words_to_one_hot
    \/ get_random_sample_string
    \/ get_tensors

Spec == Init /\ [][Next]_vars

----------------------------------------------------------------------------
(* Evaluation of one step as a function of its arguments: the arguments    *)
(* are drawn at the start (a batch y that get_tensors can return, one      *)
(* prediction row and one criterion value per sample, a step j) and the    *)
(* one action applies _evaluate_step to them.  The tasks are those of the   *)
(* non-recursive grammars with sentences, at depth 3, where each has its   *)
(* whole pool, and of the largest length: column j of a batch of a shorter *)
(* max_length is column j of a batch of the largest.                       *)

InitEval ==
    /\ Construct({SetToSeq(S) : S \in SUBSET (DOMAIN code_for)})
    /\ grammar \in {Grammars[1], Grammars[2], Grammars[4]}
    /\ null = "#"
    /\ sample_depth = 3
    /\ max_length = MaxLength
    /\ op = "call"
    /\ ret = Returned(<<>>)
    /\ \E n \in 1..MaxBatch :
          \E d \in draws(n) :
              /\ ~failed(d)
              /\ \E j \in 0..(max_length - 1) :
                    \E a \in [1..n -> Rows(num_words)], nll \in [1..n -> Losses] :
                        args = [y |-> tensors_y(values(d)), a |-> a,
                                nll |-> nll, j |-> j]

apply_evaluate_step ==
    /\ op = "call"
    /\ evaluate_step(args.y, args.a, args.nll, args.j)

NextEval == apply_evaluate_step

SpecEval == InitEval /\ [][NextEval]_vars

----------------------------------------------------------------------------
(* All operations together, on the tasks of two grammars (the ambiguous    *)
(* one, whose pool is empty below depth 3, and the one that derives        *)
(* nothing) with the largest length and every terminal to predict.         *)
(* _evaluate_step is called on the training or the test set as the batch,  *)
(* with the same prediction row and the same criterion value for every     *)
(* sample.                                                                 *)

InitAll ==
    /\ Init
    /\ grammar \in {Grammars[2], Grammars[5]}
    /\ null = "#"
    /\ max_length = MaxLength
    /\ to_predict_code # <<>> \/ rhs_symbols(grammar) = {}

evaluate_data ==
    /\ train_y # <<>>
    /\ \E y \in {train_y, test_y} :
          \E j \in 0..(max_length - 1) :
              \E c \in 0..(num_words - 1), l \in Losses :
                  evaluate_step(y, [i \in DOMAIN y |-> one_hot(c, num_words)],
                                [i \in DOMAIN y |-> l], j)

NextAll == Next \/ get_data \/ evaluate_data

SpecAll == InitAll /\ [][NextAll]_vars

----------------------------------------------------------------------------
(* Properties *)

Terms == rhs_symbols(grammar)

Codes == {code_for[w] : w \in DOMAIN code_for}

GotTensors == op = "get_tensors" /\ ret.err = "none"

Evaluated == op = "evaluate_step"

\* The column of targets the evaluated step read.
YCol == [i \in DOMAIN args.y |-> args.y[i][args.j + 1]]

\* The samples the step is to score: target not null and predictable.
Scored ==
    {i \in DOMAIN YCol : /\ YCol[i] # code_for[null]
                         /\ YCol[i] \in Range(to_predict_code)}

\* C1: when the null symbol is not a terminal of the grammar, code_for has
\* exactly T + 1 entries (T the number of terminals) and is a bijection onto
\* 0..T: the terminals take distinct codes below T and the null symbol, and
\* only it, takes T = num_words - 1.
C1_CodeBijection ==
    LET T == Cardinality(Terms)
    IN  null \notin Terms =>
          /\ DOMAIN code_for = Terms \cup {null}
          /\ Cardinality(DOMAIN code_for) = T + 1
          /\ num_words = T + 1
          /\ Codes = 0..T
          /\ \A v, w \in DOMAIN code_for : code_for[v] = code_for[w] => v = w
          /\ \A w \in Terms : code_for[w] \in 0..(T - 1)
          /\ \A w \in DOMAIN code_for : code_for[w] = T <=> w = null

C1_Witness ==
    /\ null \notin Terms
    /\ Terms = {"a", "b"}
    /\ code_for["b"] = 0
    /\ code_for[null] = 2

\* C2: in every dataset get_tensors returns, y[i, j] is the code of word
\* j + 1 of sentence i when j + 1 is less than the sentence's length, and the
\* null code otherwise, for every column j below max_length.
C2_TargetsShifted ==
    GotTensors =>
        /\ Len(ret.val.y) = args.num_tensors
        /\ \A i \in DOMAIN args.x_raw :
              \A j \in 0..(max_length - 1) :
                  ret.val.y[i][j + 1] =
                      IF j + 1 < Len(args.x_raw[i])
                      THEN code_for[args.x_raw[i][j + 2]]
                      ELSE code_for[null]

\* A dataset with a sentence longer than max_length and a sentence with
\* padding in its targets.
C2_Witness ==
    /\ GotTensors
    /\ \E i, k \in DOMAIN args.x_raw :
          /\ Len(args.x_raw[i]) > max_length
          /\ ret.val.y[i][max_length] = code_for[args.x_raw[i][max_length + 1]]
          /\ ret.val.y[i][max_length] # code_for[null]
          /\ Len(args.x_raw[k]) <= 1
          /\ ret.val.y[k][1] = code_for[null]

\* C3: get_tensors(n) returns x of shape (n, max_length, num_words) and y of
\* shape (n, max_length); row x[i, j, :] is the one-hot vector of word j of
\* sentence i when j is below the sentence's length and the null symbol's
\* one-hot vector otherwise, so every row has exactly one entry 1.
C3_InputRows ==
    GotTensors =>
        /\ Len(ret.val.x) = args.num_tensors
        /\ Len(ret.val.y) = args.num_tensors
        /\ \A i \in DOMAIN args.x_raw :
              /\ Len(ret.val.x[i]) = max_length
              /\ Len(ret.val.y[i]) = max_length
              /\ \A j \in 0..(max_length - 1) :
                    LET row == ret.val.x[i][j + 1]
                    IN  /\ Len(row) = num_words
                        /\ row = IF j < Len(args.x_raw[i])
                                 THEN one_hot(code_for[args.x_raw[i][j + 1]],
                                              num_words)
                                 ELSE one_hot(code_for[null], num_words)
                        /\ Cardinality({k \in DOMAIN row : row[k] = 1}) = 1
                        /\ \A k \in DOMAIN row : row[k] \in {0, 1}

\* C4: total is the number of samples whose target at step j is not the null
\* code and is in to_predict_code; correct is the number of those whose
\* prediction (an index of a largest score of the row) equals the target.
C4_MaskedCounts ==
    Evaluated =>
        /\ \A i \in DOMAIN args.a :
              \A k \in DOMAIN args.a[i] :
                  args.a[i][k] <= args.a[i][args.y_pred[i] + 1]
        /\ ret.val.total = Cardinality(Scored)
        /\ ret.val.correct =
              Cardinality({i \in Scored : args.y_pred[i] = YCol[i]})

\* A batch with a null target while null is among the words to predict, and
\* with a right prediction of a target that is not to be predicted.
C4_Witness ==
    /\ Evaluated
    /\ code_for[null] \in Range(to_predict_code)
    /\ \E i, k \in DOMAIN YCol :
          /\ YCol[i] = code_for[null]
          /\ args.y_pred[i] = YCol[i]
          /\ YCol[k] # code_for[null]
          /\ YCol[k] \notin Range(to_predict_code)
          /\ args.y_pred[k] = YCol[k]
    /\ ret.val.total = 0

\* C5: the loss is (1 / batch size) times the sum over the scored samples of
\* their own criterion values; a sample that is not scored has no influence.
C5_MaskedMeanLoss ==
    Evaluated =>
        RatEq(ret.val.loss,
              Rat(SumSeq([i \in DOMAIN YCol |->
                             IF i \in Scored THEN args.nll[i] ELSE 0]),
                  Len(YCol)))

\* C6: with no word to predict, every step returns correct = 0, total = 0 and
\* loss = 0.
C6_NothingToPredict ==
    (Evaluated /\ to_predict_code = <<>>) =>
        /\ ret.val.correct = 0
        /\ ret.val.total = 0
        /\ ret.val.loss.num = 0
        /\ ret.val.loss.den > 0

\* A right prediction of a non-null target, with a positive criterion value,
\* in a task with no word to predict.
C6_Witness ==
    /\ Evaluated
    /\ to_predict_code = <<>>
    /\ \E i \in DOMAIN YCol :
          /\ YCol[i] # code_for[null]
          /\ args.y_pred[i] = YCol[i]
          /\ args.nll[i] = 1

\* C7: when the grammar yields no string within sample_depth the pool is
\* empty, get_random_sample_string, get_tensors(n) with n >= 1 and get_data
\* fail with the error of the draw and return nothing, and the four dataset
\* fields are never assigned.
C7_EmptyPoolFails ==
    generate(grammar, sample_depth) = <<>> =>
        /\ sample_strings = <<>>
        /\ op \in {"get_random_sample_string", "get_data"} =>
              ret.err = "IndexError"
        /\ (op = "get_tensors" /\ args.num_tensors >= 1) =>
              (ret.err = "IndexError" /\ args.x_raw = <<>>)
        /\ train_x = <<>> /\ train_y = <<>> /\ test_x = <<>> /\ test_y = <<>>

C7_Witness ==
    /\ generate(grammar, sample_depth) = <<>>
    /\ rhs_symbols(grammar) # {}
    /\ op = "get_data"
    /\ ret.err = "IndexError"
    /\ train_x = <<>>

\* C8: no operation changes code_for, num_words, to_predict_code or the pool
\* (nor any other field set at construction); only get_data changes train_x,
\* train_y, test_x and test_y.
C8_Frame ==
    [][/\ task' = task
       /\ op' # "get_data" => data' = data]_vars

\* _evaluate_step has run on a task whose datasets get_data assigned.
C8_Witness ==
    /\ Evaluated
    /\ train_x # <<>>
    /\ sample_strings # <<>>

\* C9: the pool holds every sentence the enumeration produced, each once.
C9_PoolDistinct ==
    /\ \A i, k \in DOMAIN sample_strings :
          sample_strings[i] = sample_strings[k] => i = k
    /\ Range(sample_strings) = Range(generate(grammar, sample_depth))

\* The enumeration produced a sentence more than once.
C9_Witness ==
    LET generator == generate(grammar, sample_depth)
    IN  /\ \E i, k \in DOMAIN generator : i # k /\ generator[i] = generator[k]
        /\ Len(sample_strings) = 2

\* C10: every code of code_for, the null symbol's too, lies in
\* 0..num_words - 1, whether or not the null symbol is a terminal.
C10_CodesInRange ==
    \A w \in DOMAIN code_for : code_for[w] \in 0..(num_words - 1)

====
